---- MODULE Spec2Model ----
(***************************************************************************)
(* Model of the Gameslab LCD frame buffer driver                           *)
(* (drivers/video/fbdev/gslcdfb.c): the two framework callbacks            *)
(* gslcd_fb_setcolreg and gslcd_fb_blank, and the bus independent          *)
(* bring-up and tear-down gslcdfb_assign / gslcdfb_release, driven by the  *)
(* platform binding gslcdfb_of_probe / gslcdfb_of_remove.                  *)
(*                                                                         *)
(* gslcdfb_assign and gslcdfb_release are modelled one statement per step  *)
(* (variable pc), so that the intermediate states of the bring-up and of   *)
(* the unwinding are states of the model.  Calls into the kernel           *)
(* (ioremap, dma_alloc_coherent, fb_alloc_cmap, register_framebuffer ...)  *)
(* act on the environment variables held, cmap, registered and may fail    *)
(* where the kernel lets them fail.                                        *)
(***************************************************************************)
EXTENDS Integers, Sequences, FiniteSets, TLC

(***************************************************************************)
(* Bounds of the model.                                                    *)
(***************************************************************************)
\* number of gslcd_fb_setcolreg calls while the device is bound
MaxColreg == 1
\* number of gslcd_fb_blank calls while the device is bound
MaxBlank == 2

(***************************************************************************)
(* Program constants.                                                      *)
(***************************************************************************)
REG_OFF_EN == 0
REG_OFF_FB_PTR == 1
BYTES_PER_PIXEL == 3
RED_SHIFT == 16
GREEN_SHIFT == 8
BLUE_SHIFT == 0
PALETTE_ENTRIES_NO == 16
\* u32: width of the registers, of the palette entries and of `unsigned`
WordBits == 32
\* errno values
ENOMEM == 12
EINVAL == 22
\* linux/fb.h blanking levels
FB_BLANK_UNBLANK == 0
FB_BLANK_NORMAL == 1
FB_BLANK_VSYNC_SUSPEND == 2
FB_BLANK_HSYNC_SUSPEND == 3
FB_BLANK_POWERDOWN == 4
VESA_POWERDOWN == 3
\* PAGE_ALIGN rounds up to a multiple of the page size
PAGE_SIZE == 4096

(***************************************************************************)
(* Machine arithmetic.  `unsigned` values that stay below 2^31 are plain   *)
(* integers; the frame buffer size, which can wrap, is a u32 kept as two   *)
(* 16 bit limbs [hi, lo].                                                  *)
(***************************************************************************)
RECURSIVE Pow2(_)
Pow2(n) == IF n = 0 THEN 1 ELSE 2 * Pow2(n - 1)

\* the range of one 16 bit limb of a u32
Limb == Pow2(WordBits \div 2)

\* x >> n on an unsigned
Shr(x, n) == x \div Pow2(n)

\* x << n on a u32: the bits shifted past bit 31 are lost
Shl(x, n) == IF n = 0 THEN x ELSE (x % Pow2(WordBits - n)) * Pow2(n)

\* a | b
RECURSIVE BitOr(_, _)
BitOr(a, b) ==
    IF a = 0 THEN b
    ELSE IF b = 0 THEN a
    ELSE (IF a % 2 = 1 \/ b % 2 = 1 THEN 1 ELSE 0) + 2 * BitOr(a \div 2, b \div 2)

\* a u32 from a natural below 2^31
U32(n) == [hi |-> (n \div Limb) % Limb, lo |-> n % Limb]

\* product of two 16 bit limbs, as a u32 (exact: it is below 2^32)
Mul16(a, b) ==
    LET p1 == a * (b \div 256)
        p0 == a * (b % 256)
        low == (p1 % 256) * 256 + p0
    IN  [hi |-> (p1 \div 256) + (low \div Limb), lo |-> low % Limb]

\* x * y on u32 operands: the product modulo 2^32
U32Mul(x, y) ==
    LET ll == Mul16(x.lo, y.lo)
        cross == Mul16(x.hi, y.lo).lo + Mul16(x.lo, y.hi).lo
    IN  [hi |-> (ll.hi + cross) % Limb, lo |-> ll.lo]

\* x + n on a u32, for a small n: the sum modulo 2^32
U32Add(x, n) ==
    LET low == x.lo + n
    IN  [hi |-> (x.hi + (low \div Limb)) % Limb, lo |-> low % Limb]

\* PAGE_ALIGN(x): (x + PAGE_SIZE - 1) & ~(PAGE_SIZE - 1), on the 32 bits of x
PAGE_ALIGN(x) ==
    LET s == U32Add(x, PAGE_SIZE - 1)
    IN  [hi |-> s.hi, lo |-> s.lo - (s.lo % PAGE_SIZE)]

\* conversion of an `int` to size_t: a negative int sign-extends (ext)
IntToSize(x) == [ext |-> x.hi >= Limb \div 2, hi |-> x.hi, lo |-> x.lo]

\* conversion of a u32 to size_t: zero-extends
U32ToSize(x) == [ext |-> FALSE, hi |-> x.hi, lo |-> x.lo]

NoSize == [ext |-> FALSE, hi |-> 0, lo |-> 0]

(***************************************************************************)
(* Inputs.                                                                 *)
(***************************************************************************)
\* gslcd_fb_default_pdata, the configuration gslcdfb_of_probe passes
gslcd_fb_default_pdata ==
    [screen_height_mm |-> 65, screen_width_mm |-> 108,
     xres |-> 800, yres |-> 480, xvirt |-> 800, yvirt |-> 480, fb_phys |-> 0]

\* the platform data gslcdfb_assign is called with: the default, the
\* default with a fixed frame buffer address, and a virtual resolution
\* whose byte size does not fit 32 bits
PdataInputs ==
    { gslcd_fb_default_pdata,
      [gslcd_fb_default_pdata EXCEPT !.fb_phys = 268435456],
      [gslcd_fb_default_pdata EXCEPT !.xvirt = 65536, !.yvirt = 65537] }

\* what dma_alloc_coherent can hand out: (virtual, bus) address pairs
DmaPool == { [virt |-> 3221225, phys |-> 536870912],
             [virt |-> 3221226, phys |-> 537919488] }

\* the virtual address ioremap returns for a physical one
IoVirt(phys) == phys \div 256 + 1

\* arguments of the framework callbacks
RegnoInputs == {0, 15, 16, 255}
\* (red, green, blue): every component takes the values 0, 511 and 65535
ColorInputs == { <<511, 65535, 0>>, <<65535, 0, 511>>, <<0, 511, 65535>>,
                 <<65535, 65535, 65535>> }
TranspInputs == {0, 65535}
BlankInputs == {FB_BLANK_UNBLANK, FB_BLANK_NORMAL, FB_BLANK_VSYNC_SUSPEND,
                FB_BLANK_HSYNC_SUSPEND, FB_BLANK_POWERDOWN, 5}
\* errors of the kernel calls that report one
RegsErrors == {-16, -ENOMEM}
CmapErrors == {-ENOMEM}
RegfbErrors == {-6, -EINVAL}

(***************************************************************************)
(* State.                                                                  *)
(***************************************************************************)
VARIABLES
    pc,          \* position: "unbound", a statement of gslcdfb_assign or
                 \* gslcdfb_release, or "bound" (registered, callbacks run)
    ncol,        \* number of gslcd_fb_setcolreg calls since the device was bound
    nblank,      \* number of gslcd_fb_blank calls since the device was bound
    blankFirst,  \* build: !CONFIG_FRAMEBUFFER_CONSOLE && CONFIG_LOGO
    pdata,       \* struct gslcdfb_platform_data passed to gslcdfb_assign
    fbsize,      \* local `int fbsize` of gslcdfb_assign (its 32 bits)
    drvdata,     \* struct gslcdfb_drvdata
    hwregs,      \* the controller's two registers, by word offset
    regsMapped,  \* the register block is mapped (devm_ioremap_resource)
    held,        \* frame buffer regions currently allocated or mapped
    cmap,        \* info.cmap holds an allocated colour map
    registered,  \* info is registered with the frame buffer layer
    misfree,     \* a free or unmap was issued that matches no held region
    op,          \* the operation that ran last
    args,        \* arguments of the last callback
    rc,          \* return value of the last operation
    failedAt,    \* the step at which the last gslcdfb_assign failed
    retry,       \* the last gslcdfb_assign follows one with the same pdata
                 \* that failed at the colour map or at the registration
    log          \* kernel calls and register writes of the last operation

vars == <<pc, ncol, nblank, blankFirst, pdata, fbsize, drvdata, hwregs,
          regsMapped, held, cmap, registered, misfree, op, args, rc,
          failedAt, retry, log>>

\* devm_kzalloc(sizeof(*drvdata)): every field zero
ZeroDrvdata ==
    [regs |-> 0, fb_virt |-> 0, fb_phys |-> 0, fb_alloced |-> 0,
     pseudo_palette |-> [i \in 0 .. PALETTE_ENTRIES_NO - 1 |-> 0],
     screen_base |-> 0, smem_start |-> 0, smem_len |-> U32(0),
     line_length |-> U32(0)]

NoArgs == [regno |-> 0, red |-> 0, green |-> 0, blue |-> 0, transp |-> 0,
           grayscale |-> FALSE, blank_mode |-> 0]

\* one entry of log
Ev(call, a, b, size) == [call |-> call, a |-> a, b |-> b, size |-> size]

Init ==
    /\ pc = "unbound"
    /\ ncol = 0
    /\ nblank = 0
    /\ blankFirst \in BOOLEAN
    /\ pdata = gslcd_fb_default_pdata
    /\ fbsize = U32(0)
    /\ drvdata = ZeroDrvdata
    /\ hwregs = [o \in {REG_OFF_EN, REG_OFF_FB_PTR} |-> 0]
    /\ regsMapped = FALSE
    /\ held = {}
    /\ cmap = FALSE
    /\ registered = FALSE
    /\ misfree = FALSE
    /\ op = "none"
    /\ args = NoArgs
    /\ rc = 0
    /\ failedAt = "none"
    /\ retry = FALSE
    /\ log = <<>>

(***************************************************************************)
(* Register interface.                                                     *)
(***************************************************************************)
\* gslcd_fb_out32: iowrite32(val, regs + (offset << 2))
gslcd_fb_out32(regs, offset, val) == [regs EXCEPT ![offset] = val]

(***************************************************************************)
(* gslcd_fb_setcolreg.                                                     *)
(***************************************************************************)
\* Luma with weights that sum to 257
Luma_weights(red, green, blue) ==
    Shr(red * 77 + green * 151 + blue * 29 + 127, 8)

\* the luminance of the grayscale branch
Luma(red, green, blue) == Shr(red * 77 + green * 151 + blue * 28 + 127, 8)

\* PackColor with the red and the blue shift exchanged
PackColor_bgr(red, green, blue, grayscale) ==
    LET r0 == IF grayscale THEN Luma(red, green, blue) ELSE red
        g0 == IF grayscale THEN Luma(red, green, blue) ELSE green
        b0 == IF grayscale THEN Luma(red, green, blue) ELSE blue
    IN  BitOr(BitOr(Shl(Shr(r0, 8), BLUE_SHIFT), Shl(Shr(g0, 8), GREEN_SHIFT)),
              Shl(Shr(b0, 8), RED_SHIFT))

\* the value stored in palette[regno]
PackColor(red, green, blue, grayscale) ==
    LET r0 == IF grayscale THEN Luma(red, green, blue) ELSE red
        g0 == IF grayscale THEN Luma(red, green, blue) ELSE green
        b0 == IF grayscale THEN Luma(red, green, blue) ELSE blue
        r8 == Shr(r0, 8)
        g8 == Shr(g0, 8)
        b8 == Shr(b0, 8)
    IN  BitOr(BitOr(Shl(r8, RED_SHIFT), Shl(g8, GREEN_SHIFT)), Shl(b8, BLUE_SHIFT))

\* SetcolregRc with the bound off by one
SetcolregRc_offbyone(regno) == IF regno > PALETTE_ENTRIES_NO THEN -EINVAL ELSE 0

\* the return value
SetcolregRc(regno) == IF regno >= PALETTE_ENTRIES_NO THEN -EINVAL ELSE 0

\* the palette after the call (transp is accepted and not used)
SetcolregPalette(palette, regno, red, green, blue, transp, grayscale) ==
    IF regno >= PALETTE_ENTRIES_NO
    THEN palette
    ELSE [palette EXCEPT ![regno] = PackColor(red, green, blue, grayscale)]

gslcd_fb_setcolreg ==
    /\ pc = "bound"
    /\ ncol < MaxColreg
    /\ \E regno \in RegnoInputs, c \in ColorInputs, transp \in TranspInputs,
          gray \in BOOLEAN :
          /\ drvdata' = [drvdata EXCEPT !.pseudo_palette =
                 SetcolregPalette(@, regno, c[1], c[2], c[3], transp, gray)]
          /\ rc' = SetcolregRc(regno)
          /\ args' = [NoArgs EXCEPT !.regno = regno, !.red = c[1],
                        !.green = c[2], !.blue = c[3], !.transp = transp,
                        !.grayscale = gray]
    /\ op' = "setcolreg"
    /\ log' = <<>>
    /\ ncol' = ncol + 1
    /\ UNCHANGED <<pc, nblank, blankFirst, pdata, fbsize, hwregs, regsMapped,
                   held, cmap, registered, misfree, failedAt, retry>>

(***************************************************************************)
(* gslcd_fb_blank.                                                         *)
(***************************************************************************)
\* BlankWrites with FB_BLANK_POWERDOWN left to the default case
BlankWrites_nopowerdown(blank_mode) ==
    IF blank_mode = FB_BLANK_UNBLANK
    THEN << Ev("out32", REG_OFF_EN, 1, NoSize) >>
    ELSE IF blank_mode \in {FB_BLANK_NORMAL, FB_BLANK_VSYNC_SUSPEND,
                            FB_BLANK_HSYNC_SUSPEND}
    THEN << Ev("out32", REG_OFF_EN, 0, NoSize) >>
    ELSE << >>

\* BlankWrites with the default label above the write of 0
BlankWrites_defaultoff(blank_mode) ==
    IF blank_mode = FB_BLANK_UNBLANK
    THEN << Ev("out32", REG_OFF_EN, 1, NoSize) >>
    ELSE << Ev("out32", REG_OFF_EN, 0, NoSize) >>

\* BlankWrites that also clears FRAME_POINTER when it turns the panel off
BlankWrites_clearptr(blank_mode) ==
    IF blank_mode = FB_BLANK_UNBLANK
    THEN << Ev("out32", REG_OFF_EN, 1, NoSize) >>
    ELSE IF blank_mode \in {FB_BLANK_NORMAL, FB_BLANK_VSYNC_SUSPEND,
                            FB_BLANK_HSYNC_SUSPEND, FB_BLANK_POWERDOWN}
    THEN << Ev("out32", REG_OFF_EN, 0, NoSize),
            Ev("out32", REG_OFF_FB_PTR, 0, NoSize) >>
    ELSE << >>

\* the register writes of gslcd_fb_blank(blank_mode), in order
BlankWrites(blank_mode) ==
    IF blank_mode = FB_BLANK_UNBLANK
    THEN << Ev("out32", REG_OFF_EN, 1, NoSize) >>
    ELSE IF blank_mode \in {FB_BLANK_NORMAL, FB_BLANK_VSYNC_SUSPEND,
                            FB_BLANK_HSYNC_SUSPEND, FB_BLANK_POWERDOWN}
    THEN << Ev("out32", REG_OFF_EN, 0, NoSize) >>
    ELSE << >>

\* the registers after a sequence of writes
RECURSIVE ApplyWrites(_, _)
ApplyWrites(regs, ws) ==
    IF ws = << >> THEN regs
    ELSE ApplyWrites(gslcd_fb_out32(regs, Head(ws).a, Head(ws).b), Tail(ws))

gslcd_fb_blank ==
    /\ pc = "bound"
    /\ nblank < MaxBlank
    /\ \E blank_mode \in BlankInputs :
          /\ hwregs' = ApplyWrites(hwregs, BlankWrites(blank_mode))
          /\ log' = BlankWrites(blank_mode)
          /\ args' = [NoArgs EXCEPT !.blank_mode = blank_mode]
    /\ rc' = 0
    /\ op' = "blank"
    /\ nblank' = nblank + 1
    /\ UNCHANGED <<pc, ncol, blankFirst, pdata, fbsize, drvdata, regsMapped,
                   held, cmap, registered, misfree, failedAt, retry>>

(***************************************************************************)
(* The kernel's frame buffer memory: ioremap / iounmap and                 *)
(* dma_alloc_coherent / dma_free_coherent, as gslcdfb_assign and           *)
(* gslcdfb_release call them.                                              *)
(***************************************************************************)
\* a size the kernel can satisfy: positive as an int (a size of zero, or
\* one of 2 GiB and more, is refused by ioremap and by the allocator)
CanHold(size) ==
    /\ ~size.ext
    /\ size.hi < Limb \div 2
    /\ (size.hi > 0 \/ size.lo > 0)

Region(kind, virt, phys, size) ==
    [kind |-> kind, virt |-> virt, phys |-> phys, size |-> size,
     zeroed |-> NoSize]

\* the held regions dma_free_coherent(dev, size, virt, phys) gives back
DmaMatch(h, size, virt, phys) ==
    { r \in h : r.kind = "dma" /\ r.virt = virt /\ r.phys = phys /\ r.size = size }

\* the held regions iounmap(virt) unmaps
IoMatch(h, virt) == { r \in h : r.kind = "iomap" /\ r.virt = virt }

\* the size gslcdfb_assign allocates and, on its error path, frees
AssignAllocSize(size) == IntToSize(PAGE_ALIGN(size))

\* the size gslcdfb_release frees: PAGE_ALIGN(info.fix.smem_len)
ReleaseAllocSize(smem_len) == U32ToSize(PAGE_ALIGN(smem_len))

\* if (drvdata->fb_alloced) dma_free_coherent(...) else iounmap(...):
\* the call made, as a log entry
FbTeardownCall(d, size) ==
    IF d.fb_alloced # 0
    THEN Ev("dma_free_coherent", d.fb_virt, d.fb_phys, size)
    ELSE Ev("iounmap", d.fb_virt, 0, NoSize)

\* the held regions the call gives back
FbTeardownMatch(h, d, size) ==
    IF d.fb_alloced # 0
    THEN DmaMatch(h, size, d.fb_virt, d.fb_phys)
    ELSE IoMatch(h, d.fb_virt)

(***************************************************************************)
(* gslcdfb_of_probe and gslcdfb_assign.                                    *)
(***************************************************************************)
\* int fbsize = pdata->xvirt * pdata->yvirt * BYTES_PER_PIXEL
FbSize(pd) == U32Mul(U32Mul(U32(pd.xvirt), U32(pd.yvirt)), U32(BYTES_PER_PIXEL))

\* info.fix.line_length = pdata->xvirt * BYTES_PER_PIXEL
LineLength(pd) == U32Mul(U32(pd.xvirt), U32(BYTES_PER_PIXEL))

gslcdfb_of_probe ==
    /\ pc = "unbound"
    /\ log' = << >>
    /\ args' = NoArgs
    /\ \/ \* devm_kzalloc fails
          /\ op' = "probe"
          /\ rc' = -ENOMEM
          /\ failedAt' = "kzalloc"
          /\ retry' = FALSE
          /\ UNCHANGED <<pc, pdata, fbsize, drvdata, ncol, nblank>>
       \/ \* gslcdfb_assign(pdev, drvdata, &pdata) is entered
          \E pd \in PdataInputs :
             /\ pdata' = pd
             /\ retry' = (op = "assign" /\ failedAt \in {"cmap", "regfb"} /\ pd = pdata)
             /\ drvdata' = ZeroDrvdata
             /\ fbsize' = FbSize(pd)
             /\ op' = "assign"
             /\ rc' = 0
             /\ failedAt' = "none"
             /\ ncol' = 0
             /\ nblank' = 0
             /\ pc' = "a_regs"
    /\ UNCHANGED <<blankFirst, hwregs, regsMapped, held, cmap,
                   registered, misfree>>

\* assign_regs without the return after a failed mapping
assign_regs_noreturn ==
    /\ pc = "a_regs"
    /\ \/ /\ regsMapped' = TRUE
          /\ drvdata' = [drvdata EXCEPT !.regs = 1]
          /\ log' = Append(log, Ev("devm_ioremap_resource", 1, 0, NoSize))
          /\ pc' = "a_fb"
          /\ UNCHANGED <<rc, failedAt>>
       \/ \E e \in RegsErrors :
             /\ drvdata' = [drvdata EXCEPT !.regs = e]
             /\ log' = Append(log, Ev("devm_ioremap_resource", e, 0, NoSize))
             /\ rc' = e
             /\ failedAt' = "regs"
             /\ pc' = "a_fb"
             /\ UNCHANGED regsMapped
    /\ UNCHANGED <<ncol, nblank, blankFirst, pdata, fbsize, hwregs, held,
                   cmap, registered, misfree, op, args, retry>>

\* drvdata->regs = devm_ioremap_resource(...); if (IS_ERR(...)) return
assign_regs ==
    /\ pc = "a_regs"
    /\ \/ /\ regsMapped' = TRUE
          /\ drvdata' = [drvdata EXCEPT !.regs = 1]
          /\ log' = Append(log, Ev("devm_ioremap_resource", 1, 0, NoSize))
          /\ pc' = "a_fb"
          /\ UNCHANGED <<rc, failedAt>>
       \/ \E e \in RegsErrors :
             /\ drvdata' = [drvdata EXCEPT !.regs = e]
             /\ log' = Append(log, Ev("devm_ioremap_resource", e, 0, NoSize))
             /\ rc' = e
             /\ failedAt' = "regs"
             /\ pc' = "a_ret"
             /\ UNCHANGED regsMapped
    /\ UNCHANGED <<ncol, nblank, blankFirst, pdata, fbsize, hwregs, held,
                   cmap, registered, misfree, op, args, retry>>

\* the fixed address branch: drvdata after ioremap returned virt
AcquireFixed(d, pd, virt) == [d EXCEPT !.fb_phys = pd.fb_phys, !.fb_virt = virt]

\* AcquireAlloc without drvdata->fb_alloced = 1
AcquireAlloc_noflag(d, virt, phys) == [d EXCEPT !.fb_virt = virt, !.fb_phys = phys]

\* the allocating branch: drvdata after dma_alloc_coherent returned
\* virt and stored the bus address phys
AcquireAlloc(d, virt, phys) ==
    [d EXCEPT !.fb_alloced = 1, !.fb_virt = virt, !.fb_phys = phys]

\* the value returned when the frame buffer could not be obtained
AcquireErr == -ENOMEM

\* Allocate the framebuffer memory; if (!drvdata->fb_virt) return -ENOMEM
assign_fb ==
    /\ pc = "a_fb"
    /\ \/ \* ioremap succeeds
          /\ pdata.fb_phys # 0
          /\ CanHold(IntToSize(fbsize))
          /\ drvdata' = AcquireFixed(drvdata, pdata, IoVirt(pdata.fb_phys))
          /\ held' = held \cup { Region("iomap", IoVirt(pdata.fb_phys),
                                        pdata.fb_phys, IntToSize(fbsize)) }
          /\ log' = Append(log, Ev("ioremap", IoVirt(pdata.fb_phys),
                                   pdata.fb_phys, IntToSize(fbsize)))
          /\ pc' = "a_memset"
          /\ UNCHANGED <<rc, failedAt>>
       \/ \* ioremap fails
          /\ pdata.fb_phys # 0
          /\ drvdata' = AcquireFixed(drvdata, pdata, 0)
          /\ log' = Append(log, Ev("ioremap", 0, pdata.fb_phys, IntToSize(fbsize)))
          /\ rc' = AcquireErr
          /\ failedAt' = "fb"
          /\ pc' = "a_ret"
          /\ UNCHANGED held
       \/ \* dma_alloc_coherent succeeds
          /\ pdata.fb_phys = 0
          /\ CanHold(AssignAllocSize(fbsize))
          /\ \E m \in DmaPool :
                /\ \A r \in held : r.phys # m.phys
                /\ drvdata' = AcquireAlloc(drvdata, m.virt, m.phys)
                /\ held' = held \cup { Region("dma", m.virt, m.phys,
                                              AssignAllocSize(fbsize)) }
                /\ log' = Append(log, Ev("dma_alloc_coherent", m.virt, m.phys,
                                         AssignAllocSize(fbsize)))
          /\ pc' = "a_memset"
          /\ UNCHANGED <<rc, failedAt>>
       \/ \* dma_alloc_coherent fails
          /\ pdata.fb_phys = 0
          /\ drvdata' = AcquireAlloc(drvdata, 0, drvdata.fb_phys)
          /\ log' = Append(log, Ev("dma_alloc_coherent", 0, 0,
                                   AssignAllocSize(fbsize)))
          /\ rc' = AcquireErr
          /\ failedAt' = "fb"
          /\ pc' = "a_ret"
          /\ UNCHANGED held
    /\ UNCHANGED <<ncol, nblank, blankFirst, pdata, fbsize, hwregs, regsMapped,
                   cmap, registered, misfree, op, args, retry>>

\* assign_memset without the memset_io
assign_memset_skip ==
    /\ pc = "a_memset"
    /\ pc' = "a_fbptr"
    /\ UNCHANGED <<ncol, nblank, blankFirst, pdata, fbsize, drvdata, hwregs,
                   regsMapped, held, cmap, registered, misfree, op, args, rc,
                   failedAt, retry, log>>

\* memset_io(drvdata->fb_virt, 0, fbsize)
assign_memset ==
    /\ pc = "a_memset"
    /\ held' = { IF r.virt = drvdata.fb_virt
                 THEN [r EXCEPT !.zeroed = IntToSize(fbsize)] ELSE r : r \in held }
    /\ log' = Append(log, Ev("memset_io", drvdata.fb_virt, 0, IntToSize(fbsize)))
    /\ pc' = "a_fbptr"
    /\ UNCHANGED <<ncol, nblank, blankFirst, pdata, fbsize, drvdata, hwregs,
                   regsMapped, cmap, registered, misfree, op, args, rc,
                   failedAt, retry>>

\* gslcd_fb_out32(drvdata, REG_OFF_FB_PTR, drvdata->fb_phys)
assign_fbptr ==
    /\ pc = "a_fbptr"
    /\ hwregs' = gslcd_fb_out32(hwregs, REG_OFF_FB_PTR, drvdata.fb_phys)
    /\ log' = Append(log, Ev("out32", REG_OFF_FB_PTR, drvdata.fb_phys, NoSize))
    /\ pc' = "a_enable"
    /\ UNCHANGED <<ncol, nblank, blankFirst, pdata, fbsize, drvdata,
                   regsMapped, held, cmap, registered, misfree, op, args, rc,
                   failedAt, retry>>

\* gslcd_fb_out32(drvdata, REG_OFF_EN, 0x1)
assign_enable ==
    /\ pc = "a_enable"
    /\ hwregs' = gslcd_fb_out32(hwregs, REG_OFF_EN, 1)
    /\ log' = Append(log, Ev("out32", REG_OFF_EN, 1, NoSize))
    /\ pc' = "a_info"
    /\ UNCHANGED <<ncol, nblank, blankFirst, pdata, fbsize, drvdata,
                   regsMapped, held, cmap, registered, misfree, op, args, rc,
                   failedAt, retry>>

\* Fill struct fb_info
assign_info ==
    /\ pc = "a_info"
    /\ drvdata' = [drvdata EXCEPT !.screen_base = drvdata.fb_virt,
                                  !.smem_start = drvdata.fb_phys,
                                  !.smem_len = fbsize,
                                  !.line_length = LineLength(pdata)]
    /\ pc' = "a_cmap"
    /\ UNCHANGED <<ncol, nblank, blankFirst, pdata, fbsize, hwregs,
                   regsMapped, held, cmap, registered, misfree, op, args, rc,
                   failedAt, retry, log>>

\* rc = fb_alloc_cmap(&drvdata->info.cmap, PALETTE_ENTRIES_NO, 0)
assign_cmap ==
    /\ pc = "a_cmap"
    /\ \/ /\ cmap' = TRUE
          /\ log' = Append(log, Ev("fb_alloc_cmap", 0, PALETTE_ENTRIES_NO, NoSize))
          /\ pc' = "a_regfb"
          /\ UNCHANGED <<rc, failedAt>>
       \/ \E e \in CmapErrors :
             /\ log' = Append(log, Ev("fb_alloc_cmap", e, PALETTE_ENTRIES_NO, NoSize))
             /\ rc' = e
             /\ failedAt' = "cmap"
             /\ pc' = "err_cmap"
             /\ UNCHANGED cmap
    /\ UNCHANGED <<ncol, nblank, blankFirst, pdata, fbsize, drvdata, hwregs,
                   regsMapped, held, registered, misfree, op, args, retry>>

\* assign_regfb leaving through err_cmap instead of err_regfb
assign_regfb_wronglabel ==
    /\ pc = "a_regfb"
    /\ \/ /\ registered' = TRUE
          /\ log' = Append(log, Ev("register_framebuffer", 0, 0, NoSize))
          /\ pc' = "a_ret"
          /\ UNCHANGED <<rc, failedAt>>
       \/ \E e \in RegfbErrors :
             /\ log' = Append(log, Ev("register_framebuffer", e, 0, NoSize))
             /\ rc' = e
             /\ failedAt' = "regfb"
             /\ pc' = "err_cmap"
             /\ UNCHANGED registered
    /\ UNCHANGED <<ncol, nblank, blankFirst, pdata, fbsize, drvdata, hwregs,
                   regsMapped, held, cmap, misfree, op, args, retry>>

\* rc = register_framebuffer(&drvdata->info)
assign_regfb ==
    /\ pc = "a_regfb"
    /\ \/ /\ registered' = TRUE
          /\ log' = Append(log, Ev("register_framebuffer", 0, 0, NoSize))
          /\ pc' = "a_ret"
          /\ UNCHANGED <<rc, failedAt>>
       \/ \E e \in RegfbErrors :
             /\ log' = Append(log, Ev("register_framebuffer", e, 0, NoSize))
             /\ rc' = e
             /\ failedAt' = "regfb"
             /\ pc' = "err_regfb"
             /\ UNCHANGED registered
    /\ UNCHANGED <<ncol, nblank, blankFirst, pdata, fbsize, drvdata, hwregs,
                   regsMapped, held, cmap, misfree, op, args, retry>>

\* err_regfb: fb_dealloc_cmap(&drvdata->info.cmap)
assign_err_regfb ==
    /\ pc = "err_regfb"
    /\ cmap' = FALSE
    /\ log' = Append(log, Ev("fb_dealloc_cmap", 0, 0, NoSize))
    /\ pc' = "err_cmap"
    /\ UNCHANGED <<ncol, nblank, blankFirst, pdata, fbsize, drvdata, hwregs,
                   regsMapped, held, registered, misfree, op, args, rc,
                   failedAt, retry>>

\* assign_err_cmap without the free / unmap
assign_err_cmap_leak ==
    /\ pc = "err_cmap"
    /\ pc' = "err_off"
    /\ UNCHANGED <<ncol, nblank, blankFirst, pdata, fbsize, drvdata, hwregs,
                   regsMapped, held, cmap, registered, misfree, op, args, rc,
                   failedAt, retry, log>>

\* err_cmap: free or unmap the frame buffer
assign_err_cmap ==
    /\ pc = "err_cmap"
    /\ held' = held \ FbTeardownMatch(held, drvdata, AssignAllocSize(fbsize))
    /\ misfree' = (misfree \/
                   FbTeardownMatch(held, drvdata, AssignAllocSize(fbsize)) = {})
    /\ log' = Append(log, FbTeardownCall(drvdata, AssignAllocSize(fbsize)))
    /\ pc' = "err_off"
    /\ UNCHANGED <<ncol, nblank, blankFirst, pdata, fbsize, drvdata, hwregs,
                   regsMapped, cmap, registered, op, args, rc, failedAt, retry>>

\* gslcd_fb_out32(drvdata, REG_OFF_EN, 0x0); return rc
assign_err_off ==
    /\ pc = "err_off"
    /\ hwregs' = gslcd_fb_out32(hwregs, REG_OFF_EN, 0)
    /\ log' = Append(log, Ev("out32", REG_OFF_EN, 0, NoSize))
    /\ pc' = "a_ret"
    /\ UNCHANGED <<ncol, nblank, blankFirst, pdata, fbsize, drvdata,
                   regsMapped, held, cmap, registered, misfree, op, args, rc,
                   failedAt, retry>>

\* gslcdfb_of_probe returns what gslcdfb_assign returned: on success the
\* device is bound, on failure the driver core releases the device-managed
\* resources (the register mapping and drvdata)
probe_return ==
    /\ pc = "a_ret"
    /\ IF rc = 0
       THEN /\ pc' = "bound"
            /\ UNCHANGED <<drvdata, regsMapped>>
       ELSE /\ pc' = "unbound"
            /\ drvdata' = ZeroDrvdata
            /\ regsMapped' = FALSE
    /\ UNCHANGED <<ncol, nblank, blankFirst, pdata, fbsize, hwregs, held, cmap,
                   registered, misfree, op, args, rc, failedAt, retry, log>>

(***************************************************************************)
(* gslcdfb_of_remove and gslcdfb_release.                                  *)
(***************************************************************************)
\* entry, and the blanking compiled in when there is no console but a logo
release_start ==
    /\ pc = "bound"
    /\ op' = "release"
    /\ args' = NoArgs
    /\ log' = IF blankFirst THEN BlankWrites(VESA_POWERDOWN) ELSE << >>
    /\ hwregs' = IF blankFirst
                 THEN ApplyWrites(hwregs, BlankWrites(VESA_POWERDOWN))
                 ELSE hwregs
    /\ ncol' = 0
    /\ nblank' = 0
    /\ pc' = "r_unreg"
    /\ UNCHANGED <<blankFirst, pdata, fbsize, drvdata,
                   regsMapped, held, cmap, registered, misfree, rc, failedAt,
                   retry>>

\* unregister_framebuffer(&drvdata->info)
release_unreg ==
    /\ pc = "r_unreg"
    /\ registered' = FALSE
    /\ log' = Append(log, Ev("unregister_framebuffer", 0, 0, NoSize))
    /\ pc' = "r_cmap"
    /\ UNCHANGED <<ncol, nblank, blankFirst, pdata, fbsize, drvdata, hwregs,
                   regsMapped, held, cmap, misfree, op, args, rc, failedAt,
                   retry>>

\* fb_dealloc_cmap(&drvdata->info.cmap)
release_cmap ==
    /\ pc = "r_cmap"
    /\ cmap' = FALSE
    /\ log' = Append(log, Ev("fb_dealloc_cmap", 0, 0, NoSize))
    /\ pc' = "r_fb"
    /\ UNCHANGED <<ncol, nblank, blankFirst, pdata, fbsize, drvdata, hwregs,
                   regsMapped, held, registered, misfree, op, args, rc,
                   failedAt, retry>>

\* release_fb without the free / unmap
release_fb_skip ==
    /\ pc = "r_fb"
    /\ pc' = "r_off"
    /\ UNCHANGED <<ncol, nblank, blankFirst, pdata, fbsize, drvdata, hwregs,
                   regsMapped, held, cmap, registered, misfree, op, args, rc,
                   failedAt, retry, log>>

\* free or unmap the frame buffer
release_fb ==
    /\ pc = "r_fb"
    /\ held' = held \ FbTeardownMatch(held, drvdata,
                                      ReleaseAllocSize(drvdata.smem_len))
    /\ misfree' = (misfree \/
                   FbTeardownMatch(held, drvdata,
                                   ReleaseAllocSize(drvdata.smem_len)) = {})
    /\ log' = Append(log, FbTeardownCall(drvdata,
                                         ReleaseAllocSize(drvdata.smem_len)))
    /\ pc' = "r_off"
    /\ UNCHANGED <<ncol, nblank, blankFirst, pdata, fbsize, drvdata, hwregs,
                   regsMapped, cmap, registered, op, args, rc, failedAt, retry>>

\* release_off without the register write
release_off_nowrite ==
    /\ pc = "r_off"
    /\ rc' = 0
    /\ pc' = "r_ret"
    /\ UNCHANGED <<ncol, nblank, blankFirst, pdata, fbsize, drvdata, hwregs,
                   regsMapped, held, cmap, registered, misfree, op, args,
                   failedAt, retry, log>>

\* gslcd_fb_out32(drvdata, REG_OFF_EN, 0x0); return 0
release_off ==
    /\ pc = "r_off"
    /\ hwregs' = gslcd_fb_out32(hwregs, REG_OFF_EN, 0)
    /\ log' = Append(log, Ev("out32", REG_OFF_EN, 0, NoSize))
    /\ rc' = 0
    /\ pc' = "r_ret"
    /\ UNCHANGED <<ncol, nblank, blankFirst, pdata, fbsize, drvdata,
                   regsMapped, held, cmap, registered, misfree, op, args,
                   failedAt, retry>>

\* gslcdfb_of_remove returns; the driver core releases the device-managed
\* resources (the register mapping and drvdata)
remove_return ==
    /\ pc = "r_ret"
    /\ pc' = "unbound"
    /\ drvdata' = ZeroDrvdata
    /\ regsMapped' = FALSE
    /\ UNCHANGED <<ncol, nblank, blankFirst, pdata, fbsize, hwregs, held,
                   cmap, registered, misfree, op, args, rc, failedAt, retry,
                   log>>

(***************************************************************************)
(* Specification.                                                          *)
(***************************************************************************)
Next ==
    \/ gslcdfb_of_probe
    \/ assign_regs
    \/ assign_fb
    \/ assign_memset
    \/ assign_fbptr
    \/ assign_enable
    \/ assign_info
    \/ assign_cmap
    \/ assign_regfb
    \/ assign_err_regfb
    \/ assign_err_cmap
    \/ assign_err_off
    \/ probe_return
    \/ gslcd_fb_setcolreg
    \/ gslcd_fb_blank
    \/ release_start
    \/ release_unreg
    \/ release_cmap
    \/ release_fb
    \/ release_off
    \/ remove_return

Spec == Init /\ [][Next]_vars

(***************************************************************************)
(* Properties.                                                             *)
(***************************************************************************)
IsTeardown(e) == e.call \in {"dma_free_coherent", "iounmap"}
IsAcquired(e) == e.call \in {"dma_alloc_coherent", "ioremap"} /\ e.a # 0
WriteEnable(v) == Ev("out32", REG_OFF_EN, v, NoSize)
Positions(P(_)) == { i \in 1 .. Len(log) : P(log[i]) }
AssignReturned == op = "assign" /\ pc = "a_ret"
AssignFailedLate == AssignReturned /\ failedAt \in {"cmap", "regfb"}

\* the state a successful gslcdfb_assign of pdata leaves, r being the
\* frame buffer region it obtained
AssignedWith(r) ==
    /\ held = {r}
    /\ r.kind = (IF pdata.fb_phys # 0 THEN "iomap" ELSE "dma")
    /\ pdata.fb_phys # 0 => r.phys = pdata.fb_phys
    /\ drvdata = [ZeroDrvdata EXCEPT
                     !.regs = 1, !.fb_virt = r.virt, !.fb_phys = r.phys,
                     !.fb_alloced = (IF pdata.fb_phys # 0 THEN 0 ELSE 1),
                     !.screen_base = r.virt, !.smem_start = r.phys,
                     !.smem_len = FbSize(pdata),
                     !.line_length = LineLength(pdata)]
    /\ hwregs = [o \in {REG_OFF_EN, REG_OFF_FB_PTR} |->
                    IF o = REG_OFF_EN THEN 1 ELSE r.phys]
    /\ regsMapped /\ cmap /\ registered /\ ~misfree

\* C1: when gslcdfb_assign returns after a failure of the colour map
\* allocation or of the registration, its result is non-zero, no frame
\* buffer region and no colour map is held, the device is not registered
\* and ENABLE is 0; and an assign that succeeds, whether it is the first or
\* one that follows such a failure with the same platform data, leaves the
\* same state: exactly the one region it obtained, drvdata filled from
\* zero, both registers programmed, colour map held, device registered.
C1_FailedAssignLeavesNothing ==
    /\ AssignFailedLate =>
          /\ rc # 0
          /\ held = {}
          /\ ~cmap
          /\ ~registered
          /\ hwregs[REG_OFF_EN] = 0
    /\ (AssignReturned /\ rc = 0) => \E r \in held : AssignedWith(r)

\* C1 witness: an assign that follows a failed one with the same platform
\* data has succeeded
C1_Witness == AssignReturned /\ rc = 0 /\ retry

\* C2: with a fixed frame buffer address gslcdfb_assign and gslcdfb_release
\* call ioremap and iounmap only, never the coherent allocator or its
\* deallocator; without one they call dma_alloc_coherent and
\* dma_free_coherent only, never ioremap or iounmap; and every teardown
\* call matches a held region of its own kind, with the size that was
\* passed to the allocation.
C2_OwnershipPairing ==
    /\ ~misfree
    /\ (op \in {"assign", "release"} /\ pdata.fb_phys # 0) =>
          \A i \in 1 .. Len(log) :
             log[i].call \notin {"dma_alloc_coherent", "dma_free_coherent"}
    /\ (op \in {"assign", "release"} /\ pdata.fb_phys = 0) =>
          \A i \in 1 .. Len(log) : log[i].call \notin {"ioremap", "iounmap"}
    /\ \A r \in held : r.kind = (IF pdata.fb_phys # 0 THEN "iomap" ELSE "dma")

\* C2 witness: gslcdfb_release has unmapped a fixed address frame buffer
C2_Witness ==
    /\ pc = "r_ret"
    /\ pdata.fb_phys # 0
    /\ \E i \in 1 .. Len(log) : log[i].call = "iounmap"

\* C3: every frame buffer region that was obtained is torn down exactly
\* once: none is held when a failed gslcdfb_assign or gslcdfb_release has
\* returned, exactly one is held while the device is bound, the failed
\* assign and the release issue one teardown call per region obtained, and
\* no teardown call is ever issued for a region that is not held.
C3_TornDownExactlyOnce ==
    /\ ~misfree
    /\ (AssignReturned /\ rc # 0) =>
          /\ held = {}
          /\ Cardinality(Positions(IsTeardown)) = Cardinality(Positions(IsAcquired))
    /\ pc \in {"r_ret", "unbound"} => held = {}
    /\ pc = "r_ret" => Cardinality(Positions(IsTeardown)) = 1
    /\ pc = "bound" => Cardinality(held) = 1

\* C3 witness: gslcdfb_release has returned after a setcolreg call on an
\* allocated frame buffer
C3_Witness ==
    /\ pc = "r_ret"
    /\ pdata.fb_phys = 0
    /\ \E i \in 0 .. PALETTE_ENTRIES_NO - 1 : drvdata.pseudo_palette[i] # 0

\* C4: gslcd_fb_blank(FB_BLANK_UNBLANK) makes exactly one register write,
\* of 1 to ENABLE; with each of the four blanking levels it makes exactly
\* one write, of 0 to ENABLE; it returns 0.
C4_BlankStateMachine ==
    op = "blank" =>
       /\ args.blank_mode = FB_BLANK_UNBLANK =>
             /\ log = << WriteEnable(1) >>
             /\ hwregs[REG_OFF_EN] = 1
             /\ rc = 0
       /\ args.blank_mode \in {FB_BLANK_NORMAL, FB_BLANK_VSYNC_SUSPEND,
                               FB_BLANK_HSYNC_SUSPEND, FB_BLANK_POWERDOWN} =>
             /\ log = << WriteEnable(0) >>
             /\ hwregs[REG_OFF_EN] = 0
             /\ rc = 0

\* C4 witness: the display was unblanked and then powered down
C4_Witness ==
    /\ op = "blank"
    /\ nblank = 2
    /\ args.blank_mode = FB_BLANK_POWERDOWN
    /\ hwregs[REG_OFF_EN] = 0

\* C5: without grayscale, gslcd_fb_setcolreg on an index below 16 returns 0
\* and stores (red / 256) * 65536 + (green / 256) * 256 + blue / 256, a
\* value below 2^24 that the transparency argument has no part in.
C5_PackedTruecolor ==
    (op = "setcolreg" /\ ~args.grayscale /\ args.regno < PALETTE_ENTRIES_NO) =>
       /\ rc = 0
       /\ drvdata.pseudo_palette[args.regno] =
             (args.red \div 256) * 65536 + (args.green \div 256) * 256
                + (args.blue \div 256)
       /\ drvdata.pseudo_palette[args.regno] < 16777216

\* C5 witness: a colour with three different components and a non-zero
\* transparency was stored in the last entry
C5_Witness ==
    /\ op = "setcolreg"
    /\ ~args.grayscale
    /\ args.regno = PALETTE_ENTRIES_NO - 1
    /\ args.transp # 0
    /\ args.red = 511 /\ args.green = 65535 /\ args.blue = 0
    /\ rc = 0

\* the luminance of the arguments of the last call
LastLuma == (args.red * 77 + args.green * 151 + args.blue * 28 + 127) \div 256

\* C6: with grayscale, the stored value has three equal 8 bit fields, each
\* Y / 256 for Y = (red*77 + green*151 + blue*28 + 127) / 256, and Y is at
\* most 65535.
C6_Grayscale ==
    (op = "setcolreg" /\ args.grayscale /\ args.regno < PALETTE_ENTRIES_NO) =>
       /\ LastLuma <= 65535
       /\ drvdata.pseudo_palette[args.regno] =
             (LastLuma \div 256) * 65536 + (LastLuma \div 256) * 256
                + (LastLuma \div 256)

\* C6 witness: the brightest colour was stored with grayscale
C6_Witness ==
    /\ op = "setcolreg"
    /\ args.grayscale
    /\ args.regno < PALETTE_ENTRIES_NO
    /\ args.red = 65535 /\ args.green = 65535 /\ args.blue = 65535
    /\ drvdata.pseudo_palette[args.regno] = 16777215

\* C7: a gslcd_fb_setcolreg call with an index of 16 or more returns
\* -EINVAL and leaves the palette as it was.
C7_IndexOutOfRange ==
    [][(op' = "setcolreg" /\ ncol' = ncol + 1 /\ args'.regno >= 16) =>
          (rc' = -EINVAL /\ drvdata'.pseudo_palette = drvdata.pseudo_palette)]_vars

\* C7 witness: a call with index 16 was refused
C7_Witness == op = "setcolreg" /\ args.regno = 16 /\ rc = -EINVAL

\* the teardown call that fits the platform data
IsOwnTeardown(e) ==
    e.call = (IF pdata.fb_phys # 0 THEN "iounmap" ELSE "dma_free_coherent")

\* C8: when the registration fails, gslcdfb_assign then deallocates the
\* colour map, releases the frame buffer, writes 0 to ENABLE and returns
\* the registration error; when the colour map allocation fails it
\* releases the frame buffer, writes 0 to ENABLE and returns that error,
\* without a colour map deallocation.
C8_UnwindOrder ==
    LET n == Len(log) IN
    /\ (AssignReturned /\ failedAt = "regfb") =>
          /\ n >= 4
          /\ log[n - 3].call = "register_framebuffer"
          /\ log[n - 3].a = rc
          /\ rc # 0
          /\ log[n - 2].call = "fb_dealloc_cmap"
          /\ IsOwnTeardown(log[n - 1])
          /\ log[n] = WriteEnable(0)
    /\ (AssignReturned /\ failedAt = "cmap") =>
          /\ n >= 3
          /\ log[n - 2].call = "fb_alloc_cmap"
          /\ log[n - 2].a = rc
          /\ rc # 0
          /\ IsOwnTeardown(log[n - 1])
          /\ log[n] = WriteEnable(0)
          /\ \A i \in 1 .. n : log[i].call # "fb_dealloc_cmap"

\* C8 witness: gslcdfb_assign has returned the error of a failed
\* registration
C8_Witness == AssignReturned /\ failedAt = "regfb" /\ rc = -EINVAL

\* C9: the unwinding of a failed gslcdfb_assign is in the reverse order of
\* the acquisitions: the display is disabled before the frame buffer is
\* released.
C9_ReverseOrder ==
    AssignFailedLate =>
       \A i \in Positions(IsTeardown) :
          \E j \in 1 .. i - 1 : log[j] = WriteEnable(0)

\* C10: gslcdfb_release unregisters the frame buffer, deallocates the
\* colour map, releases the frame buffer and then writes 0 to ENABLE, in
\* this order (after the blanking write of the builds that have one); it
\* returns 0 with ENABLE at 0.
C10_ReleaseOrder ==
    pc = "r_ret" =>
       LET n == Len(log) IN
       /\ n = (IF blankFirst THEN 5 ELSE 4)
       /\ log[n - 3].call = "unregister_framebuffer"
       /\ log[n - 2].call = "fb_dealloc_cmap"
       /\ IsOwnTeardown(log[n - 1])
       /\ log[n] = WriteEnable(0)
       /\ rc = 0
       /\ hwregs[REG_OFF_EN] = 0
       /\ ~registered /\ ~cmap /\ held = {}

\* C10 witness: gslcdfb_release has returned in a build without the
\* blanking write, after the framework stored a palette entry
C10_Witness ==
    /\ pc = "r_ret"
    /\ ~blankFirst
    /\ drvdata.pseudo_palette[0] # 0

\* C11: a failed acquisition of the frame buffer reports which of the two
\* ways failed: a failed allocation makes gslcdfb_assign return -ENOMEM
\* (out of memory), a failed mapping of a fixed address makes it return a
\* different error.
C11_DistinctAcquireErrors ==
    (AssignReturned /\ failedAt = "fb") =>
       /\ pdata.fb_phys = 0 => rc = -ENOMEM
       /\ pdata.fb_phys # 0 => rc \notin {0, -ENOMEM}

\* the exact product of two naturals below 2^31, as four base 65536 digits,
\* least significant first
ExactMul(x, y) ==
    LET ll == Mul16(x % Limb, y % Limb)
        lh == Mul16(x % Limb, y \div Limb)
        hl == Mul16(x \div Limb, y % Limb)
        hh == Mul16(x \div Limb, y \div Limb)
        s1 == ll.hi + lh.lo + hl.lo
        s2 == (s1 \div Limb) + lh.hi + hl.hi + hh.lo
        s3 == (s2 \div Limb) + hh.hi
    IN  << ll.lo, s1 % Limb, s2 % Limb, s3 >>

\* three times a number given by four digits, as five digits
ExactTimes3(d) ==
    LET t1 == 3 * d[1]
        t2 == 3 * d[2] + (t1 \div Limb)
        t3 == 3 * d[3] + (t2 \div Limb)
        t4 == 3 * d[4] + (t3 \div Limb)
    IN  << t1 % Limb, t2 % Limb, t3 % Limb, t4 % Limb, t4 \div Limb >>

\* xvirt * yvirt * 3 and xvirt * 3 of the platform data, without wrapping
ExactBytes == ExactTimes3(ExactMul(pdata.xvirt, pdata.yvirt))
ExactStride == ExactTimes3(ExactMul(pdata.xvirt, 1))

\* the digits of a u32
Digits(u) == << u.lo, u.hi, 0, 0, 0 >>

\* C12: after a successful gslcdfb_assign the length the buffer was
\* acquired with, the number of bytes zeroed and info.fix.smem_len all equal
\* the product xvirt * yvirt * 3 (the allocation being that length rounded
\* up to a page), line_length equals xvirt * 3, and the default
\* configuration gives 1152000 bytes.
C12_ExactLength ==
    (AssignReturned /\ rc = 0) =>
       /\ Digits(drvdata.smem_len) = ExactBytes
       /\ Digits(drvdata.line_length) = ExactStride
       /\ \A r \in held :
             /\ ~r.zeroed.ext /\ Digits(r.zeroed) = ExactBytes
             /\ ~r.size.ext
             /\ r.kind = "iomap" => Digits(r.size) = ExactBytes
             /\ r.kind = "dma" => r.size = U32ToSize(PAGE_ALIGN(drvdata.smem_len))
       /\ pdata = gslcd_fb_default_pdata => drvdata.smem_len = U32(1152000)

\* C13: whenever ENABLE is 1, FRAME_POINTER holds the bus address of a
\* frame buffer region that is held, in every state, those inside the
\* unwinding of gslcdfb_assign and inside gslcdfb_release included.
C13_EnabledBufferHeld ==
    hwregs[REG_OFF_EN] = 1 => \E r \in held : r.phys = hwregs[REG_OFF_FB_PTR]

\* the calls of log, by name
LogCalls == [i \in 1 .. Len(log) |-> log[i].call]

\* C14: a successful gslcdfb_assign maps the registers, acquires the frame
\* buffer, zeroes all of it, writes its bus address to FRAME_POINTER,
\* writes 1 to ENABLE, allocates the colour map and registers the frame
\* buffer, in this order; ENABLE is 0 up to the write of 1, at which
\* FRAME_POINTER holds the address of the held, fully zeroed buffer, and
\* the device is not registered while ENABLE is 0.
C14_AssignOrder ==
    /\ (AssignReturned /\ rc = 0) =>
          /\ \E acq \in {"ioremap", "dma_alloc_coherent"} :
                LogCalls = << "devm_ioremap_resource", acq, "memset_io", "out32",
                              "out32", "fb_alloc_cmap", "register_framebuffer" >>
          /\ log[3].a = drvdata.fb_virt /\ log[3].size = IntToSize(FbSize(pdata))
          /\ log[4] = Ev("out32", REG_OFF_FB_PTR, log[2].b, NoSize)
          /\ log[5] = WriteEnable(1)
    /\ (op = "assign" /\ pc \in {"a_regs", "a_fb", "a_memset", "a_fbptr", "a_enable"}) =>
          hwregs[REG_OFF_EN] = 0
    /\ (op = "assign" /\ pc \in {"a_info", "a_cmap", "a_regfb"}) =>
          /\ hwregs[REG_OFF_EN] = 1
          /\ \E r \in held :
                /\ r.phys = hwregs[REG_OFF_FB_PTR]
                /\ r.virt = drvdata.fb_virt
                /\ r.zeroed = IntToSize(fbsize)
                /\ CanHold(r.zeroed)
    /\ (op = "assign" /\ registered) => hwregs[REG_OFF_EN] = 1

\* C14 witness: gslcdfb_assign has succeeded on a fixed address buffer
C14_Witness == AssignReturned /\ rc = 0 /\ pdata.fb_phys # 0

\* C15: when the register mapping or the frame buffer acquisition fails,
\* gslcdfb_assign returns an error and has written no register, allocated
\* no colour map and registered nothing, and no frame buffer region is
\* held.
C15_EarlyFailure ==
    (AssignReturned /\ failedAt \in {"regs", "fb"}) =>
       /\ rc # 0
       /\ \A i \in 1 .. Len(log) :
             log[i].call \notin {"out32", "fb_alloc_cmap", "register_framebuffer"}
       /\ hwregs[REG_OFF_EN] = 0
       /\ held = {}
       /\ ~cmap
       /\ ~registered

\* C15 witness: the register mapping failed
C15_Witness == AssignReturned /\ failedAt = "regs" /\ rc = -16

\* the frame buffer fields of drvdata
FbFields(d) == << d.fb_virt, d.fb_phys, d.fb_alloced >>

\* C16: a successful gslcd_fb_setcolreg changes palette[regno] only: the
\* other entries, both registers and the frame buffer pointer, address and
\* ownership flag stay; gslcd_fb_blank changes ENABLE at most:
\* FRAME_POINTER, the palette and the frame buffer fields stay.
C16_FrameConditions ==
    [][/\ (op' = "setcolreg" /\ ncol' = ncol + 1 /\ rc' = 0) =>
             /\ \A i \in 0 .. PALETTE_ENTRIES_NO - 1 :
                   i # args'.regno =>
                      drvdata'.pseudo_palette[i] = drvdata.pseudo_palette[i]
             /\ hwregs' = hwregs
             /\ FbFields(drvdata') = FbFields(drvdata)
             /\ held' = held
       /\ (op' = "blank" /\ nblank' = nblank + 1) =>
             /\ hwregs'[REG_OFF_FB_PTR] = hwregs[REG_OFF_FB_PTR]
             /\ drvdata' = drvdata
             /\ held' = held]_vars

\* C16 witness: a palette entry was stored after the display was blanked
C16_Witness ==
    /\ op = "setcolreg"
    /\ rc = 0
    /\ drvdata.pseudo_palette[args.regno] # 0
    /\ hwregs[REG_OFF_EN] = 0

\* C17: gslcd_fb_blank with a mode that is none of the five blanking
\* levels writes no register, leaves ENABLE as it was and returns 0.
C17_UnknownBlankMode ==
    [][(/\ op' = "blank"
        /\ nblank' = nblank + 1
        /\ args'.blank_mode \notin {FB_BLANK_UNBLANK, FB_BLANK_NORMAL,
                                    FB_BLANK_VSYNC_SUSPEND, FB_BLANK_HSYNC_SUSPEND,
                                    FB_BLANK_POWERDOWN}) =>
          (log' = << >> /\ hwregs' = hwregs /\ rc' = 0)]_vars

\* C17 witness: an unknown mode was passed while the display was enabled
C17_Witness ==
    /\ op = "blank"
    /\ args.blank_mode = 5
    /\ hwregs[REG_OFF_EN] = 1
    /\ rc = 0

\* C18: once gslcdfb_assign has returned and until gslcdfb_release runs,
\* fb_alloced is 1 only if fb_virt is a non-null pointer that
\* dma_alloc_coherent returned: never for a mapped fixed address and never
\* when no buffer was obtained.
C18_OwnershipFlag ==
    /\ (AssignReturned /\ drvdata.fb_alloced = 1) =>
          /\ drvdata.fb_virt # 0
          /\ \E i \in 1 .. Len(log) :
                log[i].call = "dma_alloc_coherent" /\ log[i].a = drvdata.fb_virt
    /\ (pc = "bound" /\ drvdata.fb_alloced = 1) =>
          \E r \in held : r.kind = "dma" /\ r.virt = drvdata.fb_virt

====
